---- MODULE Spec2Model ----
(***************************************************************************)
(* A model of coupledlogistic.coupledlogistic: the trajectory engines      *)
(* diffusivecalc and kanekocalc (time-stepping, degeneracy check, bounded  *)
(* retry), the resolution of the parameter r, the cut of the transient and *)
(* the min-max normalisation.                                              *)
(*                                                                         *)
(* Numbers.  The program computes in IEEE-754 binary64.  The model keeps   *)
(* the structure of that arithmetic at a reduced width: a finite value is  *)
(* an integer count of quanta of size 1/Quantum, every operation rounds to *)
(* nearest (ties to even), a magnitude above FMax overflows to an infinity *)
(* of the same sign, and inf - inf, 0 * inf, 0 / 0 and every operation on  *)
(* a not-a-number give not-a-number.  Comparisons with not-a-number are    *)
(* false, as in the program.  A value is a pair <<kind, v>>.               *)
(***************************************************************************)
EXTENDS Integers, Sequences, FiniteSets

\* ------------------------------------------------------------- bounds ----

\* Number of binary fraction digits of a finite value.
FracBits == 2
\* Largest finite magnitude, in whole units.
MaxMag == 8
\* Largest requested time-series length (tslength).
MaxLen == 3
\* Length of the transient; the program uses 10000 (lines 97 and 100).
Transient == 1

\* ---------------------------------------------------- program constants --

\* "if count>10: break": the retry limit of both engines.
RetryLimit == 10

Quantum == 2 ^ FracBits
FMax == MaxMag * Quantum

\* out[10002:,:] : the cut is the transient plus two rows.
Cut == Transient + 2

\* --------------------------------------------------------- arithmetic ----

Fin(v) == <<"fin", v>>
PInf == <<"inf", 1>>
NInf == <<"inf", -1>>
NaN == <<"nan", 0>>
Zero == Fin(0)
One == Fin(Quantum)

IsNaN(a) == a[1] = "nan"
IsInf(a) == a[1] = "inf"
IsFin(a) == a[1] = "fin"

Sgn(v) == IF v > 0 THEN 1 ELSE IF v < 0 THEN -1 ELSE 0
Abs(v) == IF v < 0 THEN -v ELSE v

\* n / d for d > 0, rounded to nearest, ties to even.
RoundDiv(n, d) ==
    LET q == n \div d
        m == n % d
    IN  IF 2 * m < d THEN q
        ELSE IF 2 * m > d THEN q + 1
        ELSE IF q % 2 = 0 THEN q ELSE q + 1

\* Overflow of a finite result to an infinity.
FNorm(v) == IF v > FMax THEN PInf ELSE IF v < -FMax THEN NInf ELSE Fin(v)

FNeg(a) == IF IsNaN(a) THEN NaN ELSE <<a[1], -a[2]>>

FAdd(a, b) ==
    IF IsNaN(a) \/ IsNaN(b) THEN NaN
    ELSE IF IsInf(a) /\ IsInf(b) THEN (IF a = b THEN a ELSE NaN)
    ELSE IF IsInf(a) THEN a
    ELSE IF IsInf(b) THEN b
    ELSE FNorm(a[2] + b[2])

FSub(a, b) == FAdd(a, FNeg(b))

FMul(a, b) ==
    IF IsNaN(a) \/ IsNaN(b) THEN NaN
    ELSE IF IsInf(a) \/ IsInf(b)
         THEN (IF Sgn(a[2]) * Sgn(b[2]) = 0 THEN NaN
               ELSE <<"inf", Sgn(a[2]) * Sgn(b[2])>>)
    ELSE FNorm(RoundDiv(a[2] * b[2], Quantum))

\* numpy's true division: a zero divisor gives an infinity or not-a-number.
FDiv(a, b) ==
    IF IsNaN(a) \/ IsNaN(b) THEN NaN
    ELSE IF IsInf(a) /\ IsInf(b) THEN NaN
    ELSE IF IsInf(a) THEN <<"inf", a[2] * (IF b[2] < 0 THEN -1 ELSE 1)>>
    ELSE IF IsInf(b) THEN Zero
    ELSE IF b[2] = 0
         THEN (IF a[2] = 0 THEN NaN ELSE <<"inf", Sgn(a[2])>>)
    ELSE FNorm(Sgn(b[2]) * RoundDiv(Sgn(b[2]) * a[2] * Quantum, Abs(b[2])))

\* Position of a value that is not not-a-number on the extended real line.
Ord(a) == IF IsInf(a) THEN a[2] * (FMax + 1) ELSE a[2]

\* The operators ==, < and > of the program's numbers.
FEq(a, b) == ~IsNaN(a) /\ ~IsNaN(b) /\ a = b
FLt(a, b) == ~IsNaN(a) /\ ~IsNaN(b) /\ Ord(a) < Ord(b)
FGt(a, b) == FLt(b, a)

\* ------------------------------------------------------------ inputs ----

\* A matrix is a function on 0-based indices, as the program indexes it.
Mat(rows) == [l \in 0..(Len(rows) - 1) |-> [c \in 0..(Len(rows) - 1) |-> rows[l + 1][c + 1]]]

\* Adjacency matrices of the calls explored: one node; two nodes without a
\* link, with the link 0 -> 1 (the docstring's X->Y system), with the link
\* 1 -> 0, and with both links and a self-loop; three nodes 0 -> 1, 0 -> 2,
\* 1 -> 2 (the docstring's parallel system without its last node).
Graphs ==
    { Mat(<< <<0>> >>),
      Mat(<< <<0, 0>>, <<0, 0>> >>),
      Mat(<< <<0, 1>>, <<0, 0>> >>),
      Mat(<< <<0, 0>>, <<1, 0>> >>),
      Mat(<< <<1, 1>>, <<1, 0>> >>),
      Mat(<< <<0, 1, 1>>, <<0, 0, 1>>, <<0, 0, 0>> >>) }

Size(M) == Cardinality(DOMAIN M)

\* The argument r: a number (scalar = TRUE, v of length 1) or a sequence.
\* The number is 4 (the docstring's value); the sequences have the lengths
\* 1, 0, 2 and 3.  The sequence of length 1 holds 8, a parameter above 4,
\* for which the map leaves [0,1] and overflows.
RArgs ==
    { [scalar |-> TRUE, v |-> <<Fin(4 * Quantum)>>],
      [scalar |-> FALSE, v |-> <<Fin(8 * Quantum)>>],
      [scalar |-> FALSE, v |-> << >>],
      [scalar |-> FALSE, v |-> <<Fin(4 * Quantum), Fin(2 * Quantum)>>],
      [scalar |-> FALSE, v |-> <<Fin(2 * Quantum), Fin(4 * Quantum), Fin(4 * Quantum)>>] }

\* Coupling strengths 0 and 1/2.
Sigmas == {Zero, Fin(Quantum \div 2)}

CouplingTypes == {"diffusive", "kaneko"}

\* np.random.random draws from [0, 1): the values 0, 1/4 and 1/2.
Draws == {Fin(0), Fin(Quantum \div 4), Fin(Quantum \div 2)}

\* ------------------------------------------------------------- state ----

VARIABLES
    tslength,      \* requested length
    rarg,          \* the argument r as passed
    r,             \* the variable r: rarg, then the resolved parameter vector
    A,             \* adjacency matrix
    sigma,         \* coupling strength
    couplingtype,  \* 'diffusive' or 'kaneko'
    nonodes,       \* number of nodes
    out,           \* the trajectory buffer of the current attempt
    n, k,          \* time step and node of the loops
    temp,          \* degeneracy flag of the current attempt
    count,         \* number of attempts started
    pc,            \* position in the program
    exc,           \* the exception raised, if any
    result         \* the table returned

vars == <<tslength, rarg, r, A, sigma, couplingtype, nonodes, out, n, k,
          temp, count, pc, exc, result>>

inputs == <<tslength, rarg, A, sigma, couplingtype>>

Nodes == 0..(nonodes - 1)

\* Index of the last row of the buffer: range(tslength+10000) has this many steps.
LastRow == tslength + Transient

Init ==
    /\ tslength \in 1..MaxLen
    /\ rarg \in RArgs
    /\ r = rarg.v
    /\ A \in Graphs
    /\ sigma \in Sigmas
    /\ couplingtype \in CouplingTypes
    /\ nonodes = 0
    /\ out = << >>
    /\ n = 0
    /\ k = 0
    /\ temp = 0
    /\ count = 0
    /\ pc = "call"
    /\ exc = "none"
    /\ result = << >>

\* ------------------------------------------------- parameter resolution --

\* Lines 83-86: a number or a sequence of length 1 is broadcast to nonodes
\* entries; any other sequence is left as it is.
ResolveR(ra, nn) ==
    IF ra.scalar \/ Len(ra.v) = 1
    THEN [i \in 1..nn |-> FMul(One, ra.v[1])]
    ELSE ra.v

\* Lines 77-92 and 193-196: nonodes = len(A[1,:]) needs a second row.
Setup ==
    /\ pc = "call"
    /\ IF Size(A) < 2
       THEN /\ pc' = "raised"
            /\ exc' = "IndexError"
            /\ UNCHANGED <<r, nonodes>>
       ELSE /\ nonodes' = Size(A)
            /\ r' = ResolveR(rarg, Size(A))
            /\ pc' = "attempt"
            /\ exc' = exc
    /\ count' = 0
    /\ UNCHANGED <<inputs, out, n, k, temp, result>>

\* ----------------------------------------------------------- engines ----

\* f(x) with the parameter p, evaluated left to right: p*x*(1-x).
Logistic(p, x) == FMul(FMul(p, x), FSub(One, x))

\* Lines 109-114 (diffusive) and 159-164 (kaneko): sumterm after the nodes
\* below l were visited.
RECURSIVE SumTerm(_, _, _, _)
SumTerm(ct, row, kk, l) ==
    IF l = 0 THEN Zero
    ELSE LET s == SumTerm(ct, row, kk, l - 1)
         IN  IF A[l - 1][kk] = 1
             THEN IF ct = "diffusive"
                  THEN FSub(FAdd(s, row[l - 1]), row[kk])
                  ELSE FAdd(s, Logistic(r[kk + 1], row[l - 1]))
             ELSE s

\* Deg with the in-degree read from the row of the matrix instead of its
\* column (the edge direction reversed).
DegByRows(kk) == Cardinality({l \in Nodes : A[kk][l] = 1})

\* deg[k]: the number of l with A[l,k] == 1.
Deg(kk) == Cardinality({l \in Nodes : A[l][kk] = 1})

\* NextValue with the coupling term added without the factor sigma.
NextValueUnscaled(ct, o, nn, kk) ==
    LET row == o[nn]
        x == row[kk]
        d == Deg(kk)
    IN  IF d > 0
        THEN FAdd(FMul(FMul(FMul(FSub(One, sigma), r[kk + 1]), x), FSub(One, x)),
                  FDiv(SumTerm(ct, row, kk, nonodes), Fin(d * Quantum)))
        ELSE Logistic(r[kk + 1], x)

\* NextValue updating in place: a node already written at step nn + 1 is
\* read at its new value instead of its value in row nn.
NextValueInPlace(ct, o, nn, kk) ==
    LET row == [j \in Nodes |-> IF j # kk /\ ~IsNaN(o[nn + 1][j])
                                 THEN o[nn + 1][j] ELSE o[nn][j]]
        x == row[kk]
        d == Deg(kk)
    IN  IF d > 0
        THEN FAdd(FMul(FMul(FMul(FSub(One, sigma), r[kk + 1]), x), FSub(One, x)),
                  FMul(sigma, FDiv(SumTerm(ct, row, kk, nonodes), Fin(d * Quantum))))
        ELSE Logistic(r[kk + 1], x)

\* Lines 116-120 / 166-170: the value written to out[n+1,k], read from row
\* n of the buffer o.
NextValue(ct, o, nn, kk) ==
    LET row == o[nn]
        x == row[kk]
        d == Deg(kk)
    IN  IF d > 0
        THEN FAdd(FMul(FMul(FMul(FSub(One, sigma), r[kk + 1]), x), FSub(One, x)),
                  FMul(sigma, FDiv(SumTerm(ct, row, kk, nonodes), Fin(d * Quantum))))
        ELSE Logistic(r[kk + 1], x)

\* Degenerate without the test for two zeros in a row.
DegenerateNaNOnly(new, old) == FEq(new, NaN)

\* Lines 123-128 / 173-178: the test that sets temp and leaves the loop
\* over the nodes: "== np.nan", or two zeros in a row.
Degenerate(new, old) ==
    \/ FEq(new, NaN)
    \/ FEq(new, Zero) /\ FEq(old, Zero)

\* Lines 108-128 / 158-178: the body of the loop over the nodes for node kk
\* at step nn: the buffer after the write, and whether the loop is left.
NodeBody(ct, o, nn, kk) ==
    LET v == NextValue(ct, o, nn, kk)
    IN  [out |-> [o EXCEPT ![nn + 1][kk] = v],
         brk |-> Degenerate(v, o[nn][kk])]

\* Lines 97-98 / 147-148: a buffer of not-a-number with a drawn first row.
FreshBuffer(draw) ==
    [i \in 0..LastRow |-> IF i = 0 THEN draw ELSE [j \in Nodes |-> NaN]]

\* Lines 94-98 / 144-148: start of an attempt.
Attempt ==
    /\ pc = "attempt"
    /\ \E draw \in [Nodes -> Draws] : out' = FreshBuffer(draw)
    /\ count' = count + 1
    /\ temp' = 0
    /\ n' = 0
    /\ k' = 0
    /\ pc' = "step"
    /\ UNCHANGED <<inputs, r, nonodes, exc, result>>

\* Lines 100 and 107 / 150 and 157: where the loops stand after node kk of
\* step nn; leave = TRUE when the loop over the nodes was left by break.
\* Either way the loop over the time steps goes on with the next step.
LoopNext(nn, kk, leave) ==
    IF ~leave /\ kk + 1 < nonodes
    THEN [n |-> nn, k |-> kk + 1, pc |-> "step"]
    ELSE [n |-> nn + 1, k |-> 0,
          pc |-> IF nn + 1 < LastRow THEN "step" ELSE "check"]

\* Lines 100-128 / 150-178: the rest of an attempt from step nn and node
\* kk on, with the scheme ct: the buffer and the flag when the loop over
\* the time steps ends.
RECURSIVE RunAttempt(_, _, _, _, _)
RunAttempt(ct, o, nn, kk, tmp) ==
    IF nn >= LastRow THEN [out |-> o, temp |-> tmp]
    ELSE LET b == NodeBody(ct, o, nn, kk)
             nx == LoopNext(nn, kk, b.brk)
         IN  RunAttempt(ct, b.out, nx.n, nx.k, IF b.brk THEN 1 ELSE tmp)

\* Lines 107-128 / 157-178 with the nodes visited in the order given (the
\* program's order is 0, 1, ..., nonodes-1): the state after the first i
\* nodes of the order, or after the break if one of them left the loop.
RECURSIVE RowPass(_, _, _, _, _)
RowPass(ct, o, nn, order, i) ==
    IF i = 0 THEN [out |-> o, brk |-> FALSE, done |-> {}]
    ELSE LET p == RowPass(ct, o, nn, order, i - 1)
         IN  IF p.brk THEN p
             ELSE LET b == NodeBody(ct, p.out, nn, order[i])
                  IN  [out |-> b.out, brk |-> b.brk, done |-> p.done \cup {order[i]}]

\* The order of "for k in range(nonodes)".
CodeOrder == [i \in 1..nonodes |-> i - 1]

\* Lines 107-128 / 157-178: one pass of the loop over the nodes.
NodeStep ==
    /\ pc = "step"
    /\ IF k >= Len(r)
       THEN \* r[k] is out of range
            /\ pc' = "raised"
            /\ exc' = "IndexError"
            /\ UNCHANGED <<out, n, k, temp>>
       ELSE LET b == NodeBody(couplingtype, out, n, k)
                nx == LoopNext(n, k, b.brk)
            IN  /\ out' = b.out
                /\ temp' = IF b.brk THEN 1 ELSE temp
                /\ n' = nx.n
                /\ k' = nx.k
                /\ pc' = nx.pc
                /\ exc' = exc
    /\ UNCHANGED <<inputs, r, nonodes, count, result>>

\* ErrorHandling with the bound on count off by one (count >= 10).
ErrorHandlingOffByOne ==
    /\ pc = "check"
    /\ pc' = IF temp = 0 THEN "cut"
             ELSE IF count >= RetryLimit THEN "cut"
             ELSE "attempt"
    /\ UNCHANGED <<inputs, r, nonodes, out, n, k, temp, count, exc, result>>

\* Lines 129-137 / 179-187: leave the retry loop or start another attempt.
ErrorHandling ==
    /\ pc = "check"
    /\ pc' = IF temp = 0 THEN "cut"
             ELSE IF count > RetryLimit THEN "cut"
             ELSE "attempt"
    /\ UNCHANGED <<inputs, r, nonodes, out, n, k, temp, count, exc, result>>

\* ---------------------------------------------------- post-processing ----

\* Python's min and max of a non-empty sequence: the first element is kept
\* until a later one compares smaller (larger).
RECURSIVE PyMinTo(_, _)
PyMinTo(x, j) ==
    IF j = 1 THEN x[1]
    ELSE LET best == PyMinTo(x, j - 1)
         IN  IF FLt(x[j], best) THEN x[j] ELSE best

RECURSIVE PyMaxTo(_, _)
PyMaxTo(x, j) ==
    IF j = 1 THEN x[1]
    ELSE LET best == PyMaxTo(x, j - 1)
         IN  IF FGt(x[j], best) THEN x[j] ELSE best

PyMin(x) == PyMinTo(x, Len(x))
PyMax(x) == PyMaxTo(x, Len(x))

\* Lines 189-191: (x-min(x))/(max(x)-min(x)), element by element.
normal(x) ==
    [j \in 1..Len(x) |-> FDiv(FSub(x[j], PyMin(x)), FSub(PyMax(x), PyMin(x)))]

\* Line 199: the number of rows of out[10002:,:].
CutRows == IF LastRow + 1 > Cut THEN LastRow + 1 - Cut ELSE 0

\* Column i of out[10002:,:].
CutColumn(o, i) == [j \in 1..CutRows |-> o[Cut + j - 1][i]]

\* Lines 198-203: cut the transient and normalise each column; min() of an
\* empty column raises ValueError.
Postprocess ==
    /\ pc = "cut"
    /\ IF CutRows = 0
       THEN /\ pc' = "raised"
            /\ exc' = "ValueError"
            /\ result' = result
       ELSE /\ result' = [j \in 1..CutRows |->
                            [i \in Nodes |-> normal(CutColumn(out, i))[j]]]
            /\ pc' = "done"
            /\ exc' = exc
    /\ UNCHANGED <<inputs, r, nonodes, out, n, k, temp, count>>

Next ==
    \/ Setup
    \/ Attempt
    \/ NodeStep
    \/ ErrorHandling
    \/ Postprocess

Spec == Init /\ [][Next]_vars

\* ============================================================ claims ====

\* The engine holds a buffer and has completed the steps 0 .. n-1 of it.
InEngine == pc \in {"step", "check", "cut"}

\* Node kk has no 1 in its column of the adjacency matrix.
Source(kk) == \A l \in Nodes : A[l][kk] # 1

\* Some node is 0 in row m and in row m+1 of the buffer o.  An entry not
\* written is not-a-number, so this is the case exactly when the loop over
\* the nodes was left by break at step m.
Broke(o, m) == \E kk \in Nodes : o[m][kk] = Zero /\ o[m + 1][kk] = Zero

\* No break at any step up to and including m.
CleanUpTo(o, m) == \A m2 \in 0..m : ~Broke(o, m2)

\* The parameter vector has an entry for every node.
RCoversNodes == Len(r) >= nonodes

\* A value of the closed interval [0,1].
InUnit(a) == IsFin(a) /\ 0 <= a[2] /\ a[2] <= Quantum

\* ---- C1 ----------------------------------------------------------------
\* C1: every call that returns gives a table of exactly tslength rows and
\* one column per node of the adjacency matrix.
C1_Shape ==
    pc = "done" =>
        /\ Len(result) = tslength
        /\ \A j \in 1..Len(result) : DOMAIN result[j] = 0..(Size(A) - 1)

\* ---- C2 ----------------------------------------------------------------
\* C2: every entry of a returned table lies in [0,1], and every column of
\* it has the minimum 0 and the maximum 1, also when the trajectory comes
\* from the last allowed attempt.
C2_Range ==
    pc = "done" =>
        /\ \A j \in 1..Len(result) : \A i \in Nodes : InUnit(result[j][i])
        /\ \A i \in Nodes :
              /\ \E j \in 1..Len(result) : result[j][i] = Zero
              /\ \E j \in 1..Len(result) : result[j][i] = One

OtherType == IF couplingtype = "diffusive" THEN "kaneko" ELSE "diffusive"

\* The attempt the other scheme makes from the same first row.
Twin == RunAttempt(OtherType, FreshBuffer(out[0]), 0, 0, 0)

\* Every parameter lies in [0,4].
RInRange == \A i \in 1..Len(r) : IsFin(r[i]) /\ 0 <= r[i][2] /\ r[i][2] <= 4 * Quantum

\* C4 as stated: with sigma = 0 the two schemes give the same buffer and
\* the same verdict on every attempt (hence the same number of attempts),
\* and in the trajectory returned every node follows the logistic map on
\* every row.
C4_Original ==
    (sigma = Zero /\ RCoversNodes) =>
        /\ pc \in {"check", "cut"} => (Twin.out = out /\ Twin.temp = temp)
        /\ pc = "cut" =>
              \A kk \in Nodes : \A m \in 0..(LastRow - 1) :
                  out[m + 1][kk] = Logistic(r[kk + 1], out[m][kk])

\* C4 amended: with sigma = 0 and every parameter in [0,4] the two schemes
\* give the same buffer and the same verdict on every attempt, and every
\* node follows the logistic map on every step such that no degeneracy was
\* detected at a step up to it.
C4_CouplingOff ==
    (sigma = Zero /\ RCoversNodes /\ RInRange /\ pc \in {"check", "cut"}) =>
        /\ Twin.out = out
        /\ Twin.temp = temp
        /\ \A kk \in Nodes : \A m \in 0..(LastRow - 1) : CleanUpTo(out, m) =>
              out[m + 1][kk] = Logistic(r[kk + 1], out[m][kk])

\* A finished second or later attempt with sigma = 0 and a coupled node.
C4_Witness ==
    /\ pc = "check"
    /\ sigma = Zero
    /\ RCoversNodes
    /\ RInRange
    /\ count >= 2
    /\ \E kk \in Nodes : ~Source(kk)

\* ---- C5 ----------------------------------------------------------------
\* Position of pc within one value of count: an attempt is started
\* (count + 1) after the check of the one before.
Rank ==
    CASE pc = "call" -> 0
      [] pc = "step" -> 1
      [] pc = "check" -> 2
      [] pc = "attempt" -> 3
      [] pc = "cut" -> 4
      [] OTHER -> 5

\* The progress of the call, ordered lexicographically.
Measure == <<count, Rank, n, k>>
RECURSIVE LexLess(_, _, _)
LexLess(a, b, i) ==
    /\ i <= Len(a)
    /\ \/ a[i] < b[i]
       \/ a[i] = b[i] /\ LexLess(a, b, i + 1)

\* C5: the engine never starts more than 11 attempts; every step of the
\* call increases its progress, which is bounded, so the call ends; a
\* degenerate trajectory is returned only by the 11th attempt; and after
\* the 11th attempt the engine returns the buffer of that attempt, raising
\* nothing.
C5_BoundedRetry ==
    /\ [](count <= RetryLimit + 1 /\ n <= LastRow /\ k <= Size(A))
    /\ [][LexLess(Measure, Measure', 1)]_vars
    /\ []((pc \in {"cut", "done"} /\ temp = 1) => count = RetryLimit + 1)
    /\ [][(pc = "check" /\ count = RetryLimit + 1) =>
              (pc' = "cut" /\ out' = out /\ count' = count /\ exc' = "none")]_vars

\* The 11th attempt was degenerate and its trajectory is returned.
C5_Witness == pc = "cut" /\ temp = 1 /\ count = RetryLimit + 1

\* ---- C6 ----------------------------------------------------------------
\* The argument r is a sequence whose length is neither 1 nor the number of
\* nodes.
Mismatch == ~rarg.scalar /\ Len(rarg.v) \notin {1, Size(A)}

\* C6: with such an r the call fails before a value of a trajectory is
\* computed and returns no table; a number or a sequence of length 1 is
\* broadcast to all nodes and a sequence of length N is used as given.
C6_RLength ==
    /\ Mismatch => (pc \in {"call", "attempt", "step", "raised"} /\ n = 0 /\ k = 0)
    /\ (~Mismatch /\ pc \notin {"call", "raised"}) =>
          r = IF rarg.scalar \/ Len(rarg.v) = 1
              THEN [i \in 1..Size(A) |-> rarg.v[1]]
              ELSE rarg.v

\* ---- C7 ----------------------------------------------------------------
\* C7: once a degeneracy is detected in an attempt, the buffer of that
\* attempt is not written again: the next change of the buffer is the
\* allocation of a new one, blank but for its first row.
C7_AbortOnDetect ==
    [][(temp = 1 /\ pc \in {"step", "check"}) =>
          \/ out' = out
          \/ /\ count' = count + 1
             /\ \A i \in 1..LastRow : \A j \in Nodes : IsNaN(out'[i][j])]_vars

\* ---- C8 ----------------------------------------------------------------
\* C8: a trajectory returned by an attempt before the 11th holds no
\* not-a-number.
C8_NaNFlagged ==
    (pc = "cut" /\ count <= RetryLimit) =>
        \A i \in 0..LastRow : \A j \in Nodes : ~IsNaN(out[i][j])

\* ---- C9 ----------------------------------------------------------------
\* C9: a trajectory returned by an attempt before the 11th has every row
\* computed from the row before it, and no node is 0 on two consecutive
\* rows of it.
C9_NoStuckZero ==
    (pc = "cut" /\ count <= RetryLimit) =>
        /\ \A m \in 0..(LastRow - 1) : \A kk \in Nodes :
              out[m + 1][kk] = NextValue(couplingtype, out, m, kk)
        /\ \A m \in 0..(LastRow - 1) : ~Broke(out, m)

\* A trajectory returned by a retry that is not the last one.
C9_Witness == pc = "cut" /\ count >= 2 /\ count <= RetryLimit

\* ---- C10 ---------------------------------------------------------------
\* The orders in which the nodes can be visited.
Orders == {p \in [1..nonodes -> Nodes] : \A i, j \in 1..nonodes : p[i] = p[j] => i = j}

\* Step n-1 has just been completed; Before is the buffer before that step.
JustCompleted == pc \in {"step", "check"} /\ k = 0 /\ n >= 1 /\ RCoversNodes
Before == [out EXCEPT ![n] = [j \in Nodes |-> NaN]]
InCodeOrder == RowPass(couplingtype, Before, n - 1, CodeOrder, nonodes)

\* C10 as stated: whatever the order of the nodes, every node of the new
\* row is written and the row and the flag are the same, also when a node
\* is found degenerate.
C10_Original ==
    JustCompleted =>
        LET c == InCodeOrder
        IN  \A p \in Orders :
                LET q == RowPass(couplingtype, Before, n - 1, p, nonodes)
                IN  /\ q.done = Nodes
                    /\ q.out[n] = out[n]
                    /\ q.brk = c.brk

\* C10 amended: the pass in the program's order gives the buffer of the
\* state; whatever the order, a value written is computed from row n-1
\* alone and the flag is the same; and when no node is found degenerate,
\* every node is written and the row is the same.
C10_OrderIndependent ==
    JustCompleted =>
        LET c == InCodeOrder
            fromRow == [kk \in Nodes |-> NextValue(couplingtype, Before, n - 1, kk)]
        IN  /\ c.out = out
            /\ \A p \in Orders :
                  LET q == RowPass(couplingtype, Before, n - 1, p, nonodes)
                  IN  /\ q.brk = c.brk
                      /\ \A kk \in q.done : q.out[n][kk] = fromRow[kk]
                      /\ ~c.brk => (q.done = Nodes /\ q.out[n] = out[n])

\* A completed step of a coupled network without a degenerate node, and
\* one in which a node was found degenerate.
C10_Witness ==
    /\ JustCompleted
    /\ sigma # Zero
    /\ \E kk \in Nodes : ~Source(kk)
    /\ ~InCodeOrder.brk
    /\ temp = 1

====
